---- MODULE Spec2Model ----
(***************************************************************************)
(* Bluebox Blocks driver (libcloud/drivers/bluebox.py).                    *)
(*                                                                         *)
(* The driver is a stateless adapter: every operation builds one request,  *)
(* hands it to the connection, and translates the response.  The state of  *)
(* the model is the connection's credentials plus the last operation: the  *)
(* call, the request that went on the wire, the provider's response and    *)
(* the outcome (a returned value or a raised exception).                   *)
(*                                                                         *)
(* Python values are tagged records: [t |-> "str" | "dict" | "list" |      *)
(* "num", ...].  A response body is the text on the wire: either text that *)
(* is no JSON document, [k |-> "text", s |-> ...], or the JSON encoding of *)
(* a value, [k |-> "json", v |-> ...]; json.loads strips the encoding or   *)
(* raises ValueError.  Credentials and the Authorization value are         *)
(* sequences of byte codes, so that base64 is computed bit by bit.         *)
(***************************************************************************)
EXTENDS Integers, Sequences, FiniteSets, TLC

VARIABLES user_id, key, call, sent, response, outcome

vars == <<user_id, key, call, sent, response, outcome>>

-----------------------------------------------------------------------------
(* Bounds *)

\* longest node/template list a response body carries
MaxNodes == 1

\* longest identity and longest secret key, in bytes
MaxCredLen == 2

-----------------------------------------------------------------------------
(* Outcomes of a Python call *)

Return(v) == [kind |-> "return", value |-> v]

Raise(e, a) == [kind |-> "raise", exc |-> e, arg |-> a]

NoOutcome == [kind |-> "none"]

-----------------------------------------------------------------------------
(* Python values and bodies *)

PyStr(body) == [t |-> "str", raw |-> body]

PyDict(d) == [t |-> "dict", d |-> d]

PyList(items) == [t |-> "list", items |-> items]

PyNum(n) == [t |-> "num", n |-> n]

Text(s) == [k |-> "text", s |-> s]

\* json.dumps: the JSON document that encodes v
json_dumps(v) == [k |-> "json", v |-> v]

\* json.loads: the value a JSON document encodes; ValueError on anything else
json_loads(body) ==
    IF body.k = "json" THEN Return(body.v)
    ELSE Raise("ValueError", body)

\* Python truthiness of a str body: `not self.body` holds of the empty string only
IsEmptyBody(body) == body.k = "text" /\ body.s = ""

-----------------------------------------------------------------------------
(* Module-level data *)

\* the catalog as first bound (lines 35-68)
InstanceCatalog ==
    [c \in {"1gb", "2gb", "4gb", "8gb"} |->
        CASE c = "1gb" -> [id |-> "94fd37a7-2606-47f7-84d5-9000deda52ae",
                           name |-> "Block 1GB Virtual Server",
                           ram |-> 1024, disk |-> 20, cpu |-> "0.5", cost |-> "0.15"]
          [] c = "2gb" -> [id |-> "b412f354-5056-4bf0-a42f-6ddd998aa092",
                           name |-> "Block 2GB Virtual Server",
                           ram |-> 2048, disk |-> 25, cpu |-> "1", cost |-> "0.25"]
          [] c = "4gb" -> [id |-> "0cd183d3-0287-4b1a-8288-b3ea8302ed58",
                           name |-> "Block 4GB Virtual Server",
                           ram |-> 4096, disk |-> 50, cpu |-> "2", cost |-> "0.35"]
          [] c = "8gb" -> [id |-> "b9b87a5b-2885-4a2e-b434-44a163ca6251",
                           name |-> "Block 8GB Virtual Server",
                           ram |-> 8192, disk |-> 100, cpu |-> "4", cost |-> "0.45"]]

\* the name BLUEBOX_INSTANCE_TYPES once the module is loaded: line 113 rebinds
\* it to the empty dict, after the catalog of lines 35-68
BLUEBOX_INSTANCE_TYPES == [c \in {} |-> InstanceCatalog["1gb"]]

RAM_PER_CPU == 2048

NODE_STATE_MAP ==
    [s \in {"queued", "building", "running", "error", "unknown"} |->
        CASE s = "queued" -> "PENDING"
          [] s = "building" -> "PENDING"
          [] s = "running" -> "RUNNING"
          [] s = "error" -> "TERMINATED"
          [] s = "unknown" -> "UNKNOWN"]

\* names bound at module level when a method body runs
ModuleGlobals ==
    {"Provider", "NodeState", "InvalidCredsError", "Node", "Response",
     "ConnectionUserAndKey", "NodeDriver", "NodeSize", "NodeImage",
     "NodeLocation", "datetime", "hashlib", "base64", "json",
     "BLUEBOX_API_HOST", "BLUEBOX_INSTANCE_TYPES", "BlueboxResponse",
     "BlueboxConnection", "RAM_PER_CPU", "NODE_STATE_MAP", "BlueboxNodeDriver"}

-----------------------------------------------------------------------------
(* base64 *)

\* the character code of base64 symbol i (0..63), 64 standing for the pad '='
B64Char(i) ==
    IF i < 26 THEN 65 + i
    ELSE IF i < 52 THEN 97 + (i - 26)
    ELSE IF i < 62 THEN 48 + (i - 52)
    ELSE IF i = 62 THEN 43
    ELSE IF i = 63 THEN 47
    ELSE 61

RECURSIVE B64Symbols(_)
B64Symbols(s) ==
    IF Len(s) = 0 THEN <<>>
    ELSE IF Len(s) = 1 THEN
        << s[1] \div 4, (s[1] % 4) * 16, 64, 64 >>
    ELSE IF Len(s) = 2 THEN
        << s[1] \div 4, (s[1] % 4) * 16 + (s[2] \div 16), (s[2] % 16) * 4, 64 >>
    ELSE
        << s[1] \div 4, (s[1] % 4) * 16 + (s[2] \div 16),
           (s[2] % 16) * 4 + (s[3] \div 64), s[3] % 64 >>
        \o B64Symbols(SubSeq(s, 4, Len(s)))

\* base64.b64encode on a byte string
b64encode(s) ==
    LET sym == B64Symbols(s) IN [i \in 1..Len(sym) |-> B64Char(sym[i])]

\* "Basic " as character codes
BasicPrefix == <<66, 97, 115, 105, 99, 32>>

-----------------------------------------------------------------------------
(* BlueboxResponse *)

\* a setdefault in place of the assignment: a caller's Authorization survives
add_default_headers_keep(headers) ==
    [h \in DOMAIN headers \cup {"Authorization"} |->
        IF h \in DOMAIN headers THEN headers[h]
        ELSE BasicPrefix \o b64encode(user_id \o <<58>> \o key)]

\* BlueboxConnection.add_default_headers
add_default_headers(headers) ==
    [h \in DOMAIN headers \cup {"Authorization"} |->
        IF h = "Authorization"
        THEN BasicPrefix \o b64encode(user_id \o <<58>> \o key)
        ELSE headers[h]]

\* BlueboxResponse.parse_body
parse_body(resp) ==
    LET js == json_loads(resp.body)
    IN  IF js.kind = "return" THEN js.value ELSE PyStr(resp.body)

\* the separator dropped from the synthesized message
parse_error_nosep(resp) ==
    IF resp.status = 401 THEN
        IF IsEmptyBody(resp.body)
        THEN Raise("InvalidCredsError", Text(ToString(resp.status) \o resp.error))
        ELSE Raise("InvalidCredsError", resp.body)
    ELSE Return(PyStr(resp.body))

\* BlueboxResponse.parse_error
parse_error(resp) ==
    IF resp.status = 401 THEN
        IF IsEmptyBody(resp.body)
        THEN Raise("InvalidCredsError", Text(ToString(resp.status) \o ": " \o resp.error))
        ELSE Raise("InvalidCredsError", resp.body)
    ELSE Return(PyStr(resp.body))

\* Response.success of the base class: the status that counts as success
success(resp) == resp.status = 200

\* What the connection hands back for a response: the decoded payload on
\* success; otherwise whatever error classification yields, a raised error or
\* the body as the payload.
Respond(resp) ==
    IF success(resp)
    THEN Return([status |-> resp.status, object |-> parse_body(resp)])
    ELSE LET e == parse_error(resp)
         IN  IF e.kind = "raise" THEN e
             ELSE Return([status |-> resp.status, object |-> e.value])

NoRequest == [issued |-> FALSE]

\* the request as it goes on the wire, default headers added
Wire(path, method, data, headers) ==
    [issued |-> TRUE, path |-> path, method |-> method, data |-> data,
     headers |-> add_default_headers(headers)]

NoHeaders == [h \in {} |-> ""]

NoData == Text("")

NoResponse == [status |-> 0, body |-> Text(""), error |-> ""]

-----------------------------------------------------------------------------
(* Iteration and comprehension *)

RECURSIVE SetToSeq(_)
SetToSeq(S) ==
    IF S = {} THEN <<>>
    ELSE LET x == CHOOSE y \in S : TRUE IN <<x>> \o SetToSeq(S \ {x})

\* the 1-character strs of a str; a JSON document has at least one character
\* and translation stops at the first item that fails, so one stands for all
Chars(raw) ==
    IF raw.k = "text"
    THEN [i \in 1..Len(raw.s) |-> [t |-> "chr", of |-> raw, at |-> i]]
    ELSE << [t |-> "chr", of |-> raw, at |-> 1] >>

\* `for i in obj`: the items a Python value yields, TypeError when it yields none
PyIter(obj) ==
    CASE obj.t = "list" -> Return(obj.items)
      [] obj.t = "str"  -> Return(Chars(obj.raw))
      [] obj.t = "dict" ->
            LET ks == SetToSeq(DOMAIN obj.d)
            IN  Return([i \in 1..Len(ks) |-> [t |-> "key", name |-> ks[i]]])
      [] OTHER -> Raise("TypeError", "not iterable")

\* a list built item by item from the outcomes rs of translating each item:
\* the translated items, or the first error raised
Collect(rs) ==
    LET bad == {i \in 1..Len(rs) : rs[i].kind = "raise"}
    IN  IF bad = {} THEN Return([i \in 1..Len(rs) |-> rs[i].value])
        ELSE rs[CHOOSE i \in bad : \A j \in bad : i <= j]

\* the first key of `keys` that dict d lacks, "" when it has them all
FirstMissing(keys, d) ==
    LET bad == {i \in 1..Len(keys) : keys[i] \notin DOMAIN d}
    IN  IF bad = {} THEN ""
        ELSE keys[CHOOSE i \in bad : \A j \in bad : i <= j]

\* a name read in a method body: bound locally or at module level, else NameError
NameLookup(name, locals) ==
    IF name \in locals \cup ModuleGlobals THEN Return(name)
    ELSE Raise("NameError", name)

-----------------------------------------------------------------------------
(* BlueboxNodeDriver: translation *)

\* the state read from NODE_STATE_MAP instead of the two-way test
_to_node_bymap(vm) ==
    IF vm.t # "dict" THEN Raise("TypeError", "status")
    ELSE IF "status" \notin DOMAIN vm.d THEN Raise("KeyError", "status")
    ELSE
        LET state == IF vm.d.status \in DOMAIN NODE_STATE_MAP
                     THEN NODE_STATE_MAP[vm.d.status] ELSE "UNKNOWN"
            miss  == FirstMissing(<<"id", "hostname", "ips", "storage", "cpu">>, vm.d)
        IN  IF miss # "" THEN Raise("KeyError", miss)
            ELSE Return([id |-> vm.d.id,
                         name |-> vm.d.hostname,
                         state |-> state,
                         public_ip |-> [i \in 1..Len(vm.d.ips) |-> vm.d.ips[i].address],
                         private_ip |-> <<>>,
                         extra |-> [storage |-> vm.d.storage, cpu |-> vm.d.cpu]])

\* BlueboxNodeDriver._to_node
_to_node(vm) ==
    IF vm.t # "dict" THEN Raise("TypeError", "status")
    ELSE IF "status" \notin DOMAIN vm.d THEN Raise("KeyError", "status")
    ELSE
        LET state == IF vm.d.status = "running" THEN "RUNNING" ELSE "PENDING"
            miss  == FirstMissing(<<"id", "hostname", "ips", "storage", "cpu">>, vm.d)
        IN  IF miss # "" THEN Raise("KeyError", miss)
            ELSE Return([id |-> vm.d.id,
                         name |-> vm.d.hostname,
                         state |-> state,
                         public_ip |-> [i \in 1..Len(vm.d.ips) |-> vm.d.ips[i].address],
                         private_ip |-> <<>>,
                         extra |-> [storage |-> vm.d.storage, cpu |-> vm.d.cpu]])

\* BlueboxNodeDriver._to_image
_to_image(image) ==
    IF image.t # "dict" THEN Raise("TypeError", "id")
    ELSE LET miss == FirstMissing(<<"id", "description">>, image.d)
         IN  IF miss # "" THEN Raise("KeyError", miss)
             ELSE Return([id |-> image.d.id, name |-> image.d.description])

\* NodeSize(driver=..., **i): the size built from one catalog entry
NodeSize(i) == i

-----------------------------------------------------------------------------
(* BlueboxNodeDriver: operations.  Each yields the outcome of the call; the  *)
(* request it puts on the wire is given beside it.                           *)

list_nodes_request == Wire("/api/blocks.json", "GET", NoData, NoHeaders)

\* BlueboxNodeDriver.list_nodes
list_nodes(resp) ==
    LET r == Respond(resp)
    IN  IF r.kind = "raise" THEN r
        ELSE LET it == PyIter(r.value.object)
             IN  IF it.kind = "raise" THEN it
                 ELSE Collect([i \in 1..Len(it.value) |-> _to_node(it.value[i])])

\* BlueboxNodeDriver.list_sizes: the sizes, in no particular order
list_sizes(location) ==
    Return({NodeSize(BLUEBOX_INSTANCE_TYPES[c]) : c \in DOMAIN BLUEBOX_INSTANCE_TYPES})

list_images_request == Wire("/api/block_templates.json", "GET", NoData, NoHeaders)

\* BlueboxNodeDriver.list_images
list_images(location, resp) ==
    LET r == Respond(resp)
    IN  IF r.kind = "raise" THEN r
        ELSE LET it == PyIter(r.value.object)
             IN  IF it.kind = "raise" THEN it
                 ELSE Collect([i \in 1..Len(it.value) |-> _to_image(it.value[i])])

\* BlueboxNodeDriver.create_node up to the request: the request it puts on
\* the wire, or the error raised before anything is sent
create_node_request(kwargs) ==
    LET miss == FirstMissing(<<"size", "product", "template", "password",
                               "ssh_key", "username">>, kwargs)
    IN  IF miss # "" THEN Raise("KeyError", miss)
        ELSE
        LET headers == [h \in {"Content-Type"} |-> "application/json"]
            cores   == kwargs.size.ram \div RAM_PER_CPU
            params  == [product  |-> kwargs.product,
                        template |-> kwargs.template,
                        password |-> kwargs.password,
                        ssh_key  |-> kwargs.ssh_key,
                        username |-> IF kwargs.username = "" THEN "deploy"
                                     ELSE kwargs.username]
        IN  IF "hostname" \notin DOMAIN kwargs THEN Raise("KeyError", "hostname")
            ELSE
            LET params2 == IF kwargs.hostname # ""
                           THEN [f \in DOMAIN params \cup {"hostname"} |->
                                    IF f = "hostname" THEN kwargs.hostname ELSE params[f]]
                           ELSE params
                rq == NameLookup("request",
                          {"self", "kwargs", "headers", "size", "cores", "params"})
            IN  IF rq.kind = "raise" THEN rq
                ELSE Return(Wire("/api/blocks.json", "POST",
                                 json_dumps(rq.value), headers))

\* BlueboxNodeDriver.create_node from the response on
create_node(kwargs, resp) ==
    LET r == Respond(resp)
    IN  IF r.kind = "raise" THEN r ELSE _to_node(r.value.object)

destroy_node_request(node) ==
    Wire("/api/blocks/#{node.id}.json", "DELETE", NoData, NoHeaders)

\* any 2xx status taken for success
destroy_node_2xx(node, resp) ==
    LET r == Respond(resp)
    IN  IF r.kind = "raise" THEN r
        ELSE Return(r.value.status >= 200 /\ r.value.status < 300)

\* BlueboxNodeDriver.destroy_node
destroy_node(node, resp) ==
    LET r == Respond(resp)
    IN  IF r.kind = "raise" THEN r ELSE Return(r.value.status = 200)

\* BlueboxNodeDriver.list_locations
list_locations ==
    Return(<< [id |-> 0, name |-> "Blue Box Seattle US", country |-> "US"] >>)

reboot_node_request(node) ==
    Wire("/api/blocks/#{node.id}/reboot.json", "PUT", NoData, NoHeaders)

\* BlueboxNodeDriver.reboot_node
reboot_node(node, resp) ==
    LET r == Respond(resp)
    IN  IF r.kind = "raise" THEN r
        ELSE LET n == _to_node(r.value.object)
             IN  IF n.kind = "raise" THEN n ELSE Return(r.value.status = 200)

-----------------------------------------------------------------------------
(* Inputs *)

\* the reason phrase the transport reports with a status
Reason(status) ==
    CASE status = 200 -> "OK"
      [] status = 204 -> "No Content"
      [] status = 401 -> "Unauthorized"
      [] OTHER        -> "Internal Server Error"

Statuses == {200, 204, 401, 500}

\* status strings of remote nodes: those of NODE_STATE_MAP and one it lacks
ProviderStatuses == {"queued", "building", "running", "error", "unknown", "suspended"}

NodeRecord(st) ==
    LET id == IF st \in {"running", "error", "suspended"} THEN "b1" ELSE "b2"
    IN  PyDict([id |-> id, hostname |-> id \o ".example.com", status |-> st,
                ips |-> IF id = "b1" THEN << [address |-> "10.0.0.1"] >> ELSE <<>>,
                storage |-> 20, cpu |-> 1])

NodeRecords == {NodeRecord(st) : st \in ProviderStatuses}

TemplateRecord == PyDict([id |-> "t1", description |-> "Ubuntu 10.04"])

\* records that are no node: an error document, and a node without a hostname
ErrorRecord == PyDict([error |-> "Block not found"])

PartialRecord == PyDict([id |-> "b1", status |-> "running"])

SeqsUpTo(S, n) == UNION {[1..m -> S] : m \in 0..n}

Bodies ==
    {Text(""), Text("Server Error")}
    \cup {json_dumps(v) : v \in NodeRecords \cup {TemplateRecord, ErrorRecord,
                                                  PartialRecord, PyNum(7)}}
    \cup {json_dumps(PyList(l)) : l \in SeqsUpTo(NodeRecords, MaxNodes)}
    \cup {json_dumps(PyList(<<TemplateRecord>>))}

Responses ==
    {[status |-> st, body |-> b, error |-> Reason(st)] : st \in Statuses, b \in Bodies}

\* the nodes a caller passes to destroy_node and reboot_node
Nodes == {[id |-> "b1"], [id |-> "b2"]}

Locations == {"None", "0"}

\* keyword arguments of create_node: username and hostname absent, empty or
\* given; of the other five at most two absent
KwargValue(f, v) ==
    CASE f = "size"     -> NodeSize(InstanceCatalog["4gb"])
      [] f = "username" -> v
      [] f = "hostname" -> v
      [] OTHER          -> f \o "-1"

KwargSets ==
    {[f \in ks |-> KwargValue(f, IF f = "username" THEN u ELSE h)] :
        ks \in {x \in SUBSET {"size", "product", "template", "password", "ssh_key",
                              "username", "hostname"} :
                   Cardinality({"size", "product", "template", "password",
                                "ssh_key"} \ x) <= 2},
        u \in {"", "bob"}, h \in {"", "web1"}}

\* headers a caller hands to the connection
CallerHeaders ==
    { NoHeaders,
      [h \in {"Content-Type"} |-> "application/json"],
      [h \in {"Authorization", "X-Trace"} |->
          IF h = "Authorization" THEN BasicPrefix \o <<90, 109, 57, 118>> ELSE "1"] }

ByteSample == {0, 97, 255}

ByteStrings == SeqsUpTo(ByteSample, MaxCredLen)

-----------------------------------------------------------------------------
(* State machine *)

NoCall == [op |-> "none"]

\* a driver on a connection built with one identity and secret key
Init ==
    /\ user_id = <<99, 117, 115, 116>>
    /\ key = <<107, 101, 121>>
    /\ call = NoCall
    /\ sent = NoRequest
    /\ response = NoResponse
    /\ outcome = NoOutcome

AddDefaultHeaders ==
    \E h \in CallerHeaders :
        /\ call' = [op |-> "add_default_headers", headers |-> h]
        /\ sent' = NoRequest
        /\ response' = NoResponse
        /\ outcome' = Return(add_default_headers(h))
        /\ UNCHANGED <<user_id, key>>

ParseError ==
    \E resp \in Responses :
        /\ call' = [op |-> "parse_error"]
        /\ sent' = NoRequest
        /\ response' = resp
        /\ outcome' = parse_error(resp)
        /\ UNCHANGED <<user_id, key>>

ListNodes ==
    \E resp \in Responses :
        /\ call' = [op |-> "list_nodes"]
        /\ sent' = list_nodes_request
        /\ response' = resp
        /\ outcome' = list_nodes(resp)
        /\ UNCHANGED <<user_id, key>>

ListSizes ==
    \E loc \in Locations :
        /\ call' = [op |-> "list_sizes", location |-> loc]
        /\ sent' = NoRequest
        /\ response' = NoResponse
        /\ outcome' = list_sizes(loc)
        /\ UNCHANGED <<user_id, key>>

ListImages ==
    \E resp \in Responses :
        /\ call' = [op |-> "list_images", location |-> "None"]
        /\ sent' = list_images_request
        /\ response' = resp
        /\ outcome' = list_images("None", resp)
        /\ UNCHANGED <<user_id, key>>

CreateNode ==
    \E kw \in KwargSets :
        LET rq == create_node_request(kw)
        IN  /\ call' = [op |-> "create_node", kwargs |-> kw]
            /\ IF rq.kind = "raise"
               THEN /\ sent' = NoRequest
                    /\ response' = NoResponse
                    /\ outcome' = rq
               ELSE \E resp \in Responses :
                    /\ sent' = rq.value
                    /\ response' = resp
                    /\ outcome' = create_node(kw, resp)
            /\ UNCHANGED <<user_id, key>>

DestroyNode ==
    \E node \in Nodes, resp \in Responses :
        /\ call' = [op |-> "destroy_node", node |-> node]
        /\ sent' = destroy_node_request(node)
        /\ response' = resp
        /\ outcome' = destroy_node(node, resp)
        /\ UNCHANGED <<user_id, key>>

ListLocations ==
    /\ call' = [op |-> "list_locations"]
    /\ sent' = NoRequest
    /\ response' = NoResponse
    /\ outcome' = list_locations
    /\ UNCHANGED <<user_id, key>>

RebootNode ==
    \E node \in Nodes, resp \in Responses :
        /\ call' = [op |-> "reboot_node", node |-> node]
        /\ sent' = reboot_node_request(node)
        /\ response' = resp
        /\ outcome' = reboot_node(node, resp)
        /\ UNCHANGED <<user_id, key>>

Next ==
    \/ AddDefaultHeaders
    \/ ParseError
    \/ ListNodes
    \/ ListSizes
    \/ ListImages
    \/ CreateNode
    \/ DestroyNode
    \/ ListLocations
    \/ RebootNode

Spec == Init /\ [][Next]_vars

-----------------------------------------------------------------------------
(* The connection on its own: any identity and key, any request *)

InitAuth ==
    /\ user_id \in ByteStrings
    /\ key \in ByteStrings
    /\ call = NoCall
    /\ sent = NoRequest
    /\ response = NoResponse
    /\ outcome = NoOutcome

\* connection.request(path, headers=..., method=...) answered with an empty 200
ConnRequest ==
    \E path \in {"/api/blocks.json", "/api/blocks/b1/reboot.json"},
       method \in {"GET", "POST", "PUT", "DELETE"},
       h \in CallerHeaders :
        LET resp == [status |-> 200, body |-> Text(""), error |-> Reason(200)]
        IN  /\ call' = [op |-> "request", path |-> path, method |-> method,
                        headers |-> h]
            /\ sent' = Wire(path, method, NoData, h)
            /\ response' = resp
            /\ outcome' = Respond(resp)
            /\ UNCHANGED <<user_id, key>>

NextAuth ==
    \/ AddDefaultHeaders
    \/ ConnRequest

SpecAuth == InitAuth /\ [][NextAuth]_vars

-----------------------------------------------------------------------------
(* Properties *)

\* the base64 symbol a character code stands for, -1 for the pad
B64Val(c) ==
    IF c >= 65 /\ c <= 90 THEN c - 65
    ELSE IF c >= 97 /\ c <= 122 THEN c - 97 + 26
    ELSE IF c >= 48 /\ c <= 57 THEN c - 48 + 52
    ELSE IF c = 43 THEN 62
    ELSE IF c = 47 THEN 63
    ELSE -1

\* the bytes a base64 text of whole 4-character groups decodes to
RECURSIVE B64Decode(_)
B64Decode(t) ==
    IF Len(t) < 4 THEN <<>>
    ELSE
        LET a == B64Val(t[1])
            b == B64Val(t[2])
            c == B64Val(t[3])
            d == B64Val(t[4])
            rest == B64Decode(SubSeq(t, 5, Len(t)))
        IN  IF c = -1 THEN << a * 4 + (b \div 16) >>
            ELSE IF d = -1 THEN << a * 4 + (b \div 16), (b % 16) * 16 + (c \div 4) >>
            ELSE << a * 4 + (b \div 16), (b % 16) * 16 + (c \div 4), (c % 4) * 64 + d >>
                 \o rest

\* h carries Authorization: "Basic " and then a base64 text of whole groups
\* that decodes to identity ":" secret-key
AuthOK(h) ==
    /\ "Authorization" \in DOMAIN h
    /\ LET v == h["Authorization"]
           n == Len(user_id) + 1 + Len(key)
       IN  /\ Len(v) = 6 + 4 * ((n + 2) \div 3)
           /\ SubSeq(v, 1, 6) = BasicPrefix
           /\ B64Decode(SubSeq(v, 7, Len(v))) = user_id \o <<58>> \o key

\* every header but Authorization is as the caller gave it
OthersKept(given, got) ==
    /\ DOMAIN got = DOMAIN given \cup {"Authorization"}
    /\ \A h \in DOMAIN given \ {"Authorization"} : got[h] = given[h]

RequiredFields == {"size", "product", "template", "password", "ssh_key", "username"}

\* the parameter set create_node is to assemble from its inputs
ExpectedParams(kw) ==
    [f \in {"product", "template", "password", "ssh_key", "username"}
           \cup (IF "hostname" \in DOMAIN kw /\ kw.hostname # "" THEN {"hostname"} ELSE {}) |->
        IF f = "username" /\ kw.username = "" THEN "deploy" ELSE kw[f]]

WellFormedNode(v) ==
    /\ v.t = "dict"
    /\ {"id", "hostname", "status", "ips", "storage", "cpu"} \subseteq DOMAIN v.d

\* C1 as stated: destroy_node returns true iff the response status is exactly
\* 200, and returns false for every other status without raising.
C1_DestroyNeverRaises ==
    call.op = "destroy_node" =>
        /\ outcome.kind = "return"
        /\ outcome.value = (response.status = 200)

\* C1 amended: destroy_node raises InvalidCredsError on status 401; for every
\* other status it returns true iff the status is exactly 200, and false
\* otherwise, without raising.
C1_DestroyBooleanExcept401 ==
    call.op = "destroy_node" =>
        IF response.status = 401
        THEN outcome.kind = "raise" /\ outcome.exc = "InvalidCredsError"
        ELSE outcome.kind = "return" /\ outcome.value = (response.status = 200)

\* a destroy answered with a 2xx status other than 200 has returned false
C1_Witness ==
    /\ call.op = "destroy_node"
    /\ response.status = 204
    /\ outcome = Return(FALSE)

\* C2: reboot_node returns true iff the status is 200, and for every non-200
\* status it returns false rather than raising, whatever the body.
C2_RebootBoolean ==
    call.op = "reboot_node" =>
        /\ outcome.kind = "return"
        /\ outcome.value = (response.status = 200)

\* C3: a create_node call with its required fields supplied transmits a POST
\* whose JSON body is the parameter set assembled from the inputs, the
\* username "deploy" in place of an empty one.
C3_CreateTransmitsParams ==
    (call.op = "create_node" /\ RequiredFields \subseteq DOMAIN call.kwargs) =>
        /\ sent.issued
        /\ sent.method = "POST"
        /\ sent.data = json_dumps(PyDict(ExpectedParams(call.kwargs)))

\* C4: hostname is optional: without it create_node does not fail on the
\* missing hostname and the request body has no hostname field; with a
\* non-empty one the body's hostname field equals it.
C4_HostnameOptional ==
    (call.op = "create_node" /\ RequiredFields \subseteq DOMAIN call.kwargs) =>
        /\ "hostname" \notin DOMAIN call.kwargs =>
              /\ outcome # Raise("KeyError", "hostname")
              /\ sent.issued
              /\ sent.data.k = "json"
              /\ "hostname" \notin DOMAIN sent.data.v.d
        /\ ("hostname" \in DOMAIN call.kwargs /\ call.kwargs.hostname # "") =>
              /\ sent.issued
              /\ sent.data.k = "json"
              /\ "hostname" \in DOMAIN sent.data.v.d
              /\ sent.data.v.d.hostname = call.kwargs.hostname

\* C5: list_sizes, for any location and without a network request, returns
\* exactly one size per key of the static catalog (1gb, 2gb, 4gb, 8gb), each
\* equal to its catalog entry.
C5_SizesMatchCatalog ==
    call.op = "list_sizes" =>
        /\ ~sent.issued
        /\ outcome.kind = "return"
        /\ outcome.value = {NodeSize(InstanceCatalog[c]) : c \in DOMAIN InstanceCatalog}
        /\ Cardinality(outcome.value) = 4

\* C6: whenever the provider answers 401, error classification fails with
\* InvalidCredsError, its message the body verbatim when the body is
\* non-empty and "401: " followed by the error text when it is empty; a 401
\* response is never returned as a payload.
C6_InvalidCredsOn401 ==
    (call.op # "none" /\ response.status = 401) =>
        /\ outcome.kind = "raise"
        /\ outcome.exc = "InvalidCredsError"
        /\ outcome.arg = IF IsEmptyBody(response.body)
                         THEN Text("401: " \o response.error)
                         ELSE response.body

\* error classification has synthesized the message of a 401 without a body
C6_Witness ==
    /\ call.op = "parse_error"
    /\ response.status = 401
    /\ IsEmptyBody(response.body)
    /\ outcome = Raise("InvalidCredsError", Text("401: Unauthorized"))

\* C7: on a response whose status is neither 200 nor 401, list_nodes,
\* list_images and create_node end with the raw body as their payload and do
\* not raise: translating that payload does not fail.
C7_ListCreateDoNotRaise ==
    (/\ call.op \in {"list_nodes", "list_images", "create_node"}
     /\ sent.issued
     /\ response.status \notin {200, 401}) =>
        outcome.kind = "return"

\* C8: the headers add_default_headers produces, and so those of every
\* request on the wire whatever its method and path, carry Authorization =
\* "Basic " + base64(identity ":" secret-key) in place of any value the
\* caller gave, and every other header of the caller unchanged.
C8_BasicAuthorization ==
    /\ call.op = "add_default_headers" =>
          /\ outcome.kind = "return"
          /\ AuthOK(outcome.value)
          /\ OthersKept(call.headers, outcome.value)
    /\ sent.issued => AuthOK(sent.headers)
    /\ call.op = "request" => OthersKept(call.headers, sent.headers)

\* a caller's own Authorization value has been replaced
C8_Witness ==
    /\ call.op = "add_default_headers"
    /\ "Authorization" \in DOMAIN call.headers
    /\ outcome.value["Authorization"] # call.headers["Authorization"]
    /\ outcome.value["X-Trace"] = "1"
    /\ Len(user_id) = MaxCredLen
    /\ Len(key) = 1

\* C9: destroy_node and reboot_node address the endpoint of the node passed
\* in: the request path contains node.id.
C9_PathNamesNode ==
    /\ call.op = "destroy_node" =>
          sent.path = "/api/blocks/" \o call.node.id \o ".json"
    /\ call.op = "reboot_node" =>
          sent.path = "/api/blocks/" \o call.node.id \o "/reboot.json"

\* C10: node translation maps status "running" to RUNNING and every other
\* status string to PENDING ("error", "unknown" and strings NODE_STATE_MAP
\* lacks included) and never fails on a status: list_nodes on a 200 list of
\* node records returns one node per record, in order, in that state, and
\* reboot_node on a 200 node record succeeds.
C10_TwoWayState ==
    /\ (/\ call.op = "list_nodes"
        /\ response.status = 200
        /\ response.body.k = "json"
        /\ response.body.v.t = "list"
        /\ \A i \in 1..Len(response.body.v.items) :
              WellFormedNode(response.body.v.items[i])) =>
          /\ outcome.kind = "return"
          /\ Len(outcome.value) = Len(response.body.v.items)
          /\ \A i \in 1..Len(outcome.value) :
                /\ outcome.value[i].id = response.body.v.items[i].d.id
                /\ outcome.value[i].state =
                      IF response.body.v.items[i].d.status = "running"
                      THEN "RUNNING" ELSE "PENDING"
    /\ (/\ call.op = "reboot_node"
        /\ response.status = 200
        /\ response.body.k = "json"
        /\ WellFormedNode(response.body.v)) =>
          outcome = Return(TRUE)

\* list_nodes has translated a node whose status is "error" to PENDING
C10_Witness ==
    /\ call.op = "list_nodes"
    /\ outcome.kind = "return"
    /\ Len(outcome.value) >= 1
    /\ response.body.v.items[Len(outcome.value)].d.status = "error"
    /\ outcome.value[Len(outcome.value)].state = "PENDING"

====
